---- MODULE Spec2Model ----
(***************************************************************************)
(* The streaming chat client of chat-frontend/ui/src/main.tsx: the React   *)
(* state of App (messages, input, loading, current) and the send cycles    *)
(* started by sendMessage.  A cycle suspends at `await fetch` and at every *)
(* `await reader.read()`; everything between two suspension points runs    *)
(* to completion and is one action here.                                   *)
(*                                                                         *)
(* Text is a sequence of units.  "NL" is '\n', "SP" is a blank, "A" is an  *)
(* ordinary letter, "LEAD" and "CONT" are the lead and the continuation    *)
(* byte of a two-byte UTF-8 character (decoded to "CH"), "FFFD" is the     *)
(* decoder's replacement character.  Every other unit stands for the text  *)
(* of one whole JSON document (see Doc); "X" is text that is no JSON.      *)
(***************************************************************************)
EXTENDS Naturals, Sequences, FiniteSets, TLC

VARIABLES
    messages,   \* useState<ChatMessage[]>([])            main.tsx:14
    input,      \* useState('')                           main.tsx:15
    loading,    \* useState(false)                        main.tsx:16
    current,    \* useState<string>('')                   main.tsx:17
    pc,         \* per cycle: where the async sendMessage is suspended
    buffer,     \* per cycle: let buffer = ''             main.tsx:35
    decoder,    \* per cycle: bytes the TextDecoder holds back (main.tsx:34)
    reads,      \* chunks delivered so far, counted against MaxReads
    appended,   \* per cycle: assistant messages this cycle appended
    terminals,  \* per cycle: final/error events this cycle dispatched
    outcome,    \* per cycle: how the transport ended
    received,   \* bytes delivered so far to the traced cycle
    emitted,    \* non-empty trimmed lines handed to the dispatcher by the traced cycle
    midChar     \* whether a chunk of the traced cycle has ended inside a character

vars == <<messages, input, loading, current, pc, buffer, decoder, reads,
          appended, terminals, outcome, received, emitted, midChar>>

\* ------------------------------------------------------------------ bounds
MaxCycles == 2
MaxReads == 2
MaxChunk == 3
MaxLines == 2
MaxBuffer == 1
MaxBytes == 5

Cycles == 1..MaxCycles

\* ------------------------------------------------------------ the alphabet
\* The JSON documents the server's stream is drawn from, one unit each: the
\* ones every stream may repeat, and four that come alone in their chunk.
CommonDocs == {"R", "M1", "M2", "C", "T", "F", "E", "U", "O"}
RareDocs == {"M0", "S", "FO", "N"}
DocUnits == CommonDocs \cup RareDocs

\* Units of the freely chunked streams: terminator, blank, no-JSON text and
\* one document.
CoreUnits == {"NL", "SP", "X", "F"}

\* Bytes of the decoder's streams: a letter, a blank, the terminator and the
\* two bytes of one two-byte character.
ByteUnits == {"A", "SP", "NL", "LEAD", "CONT"}

RECURSIVE SeqsUpTo(_, _)
SeqsUpTo(S, n) ==
    IF n = 0 THEN {<<>>}
    ELSE LET shorter == SeqsUpTo(S, n - 1)
         IN  shorter \cup {Append(s, u) : s \in shorter, u \in S}

RECURSIVE LineSeqs(_)
LineSeqs(n) ==
    IF n = 0 THEN {<<>>}
    ELSE LET shorter == LineSeqs(n - 1)
         IN  shorter \cup {s \o <<d, "NL">> : s \in shorter, d \in CommonDocs \cup {"X"}}

\* What one reader.read() may deliver in the send cycles: every text of at
\* most MaxChunk core units (the empty chunk included), every run of at most
\* MaxLines terminated one-document lines, and each rare document on a line.
Chunks ==
    SeqsUpTo(CoreUnits, MaxChunk) \cup LineSeqs(MaxLines)
        \cup {<<d, "NL">> : d \in RareDocs}

\* What one reader.read() may deliver to the traced decoder.
ByteChunks == SeqsUpTo(ByteUnits, MaxChunk)

\* ------------------------------------------------------- TextDecoder.decode
\* decoder.decode(value, { stream: true }): `held` is the lead byte kept from
\* the previous chunk, if any.  A complete pair gives "CH"; a lead byte not
\* followed by a continuation byte, and a continuation byte with no lead,
\* give the replacement character, and the offending byte is read again.
RECURSIVE decode(_, _)
decode(held, value) ==
    IF value = <<>> THEN [text |-> <<>>, held |-> held]
    ELSE LET b == Head(value)
             rest == Tail(value)
         IN  IF held = <<>>
             THEN IF b = "LEAD" THEN decode(<<"LEAD">>, rest)
                  ELSE LET r == decode(<<>>, rest)
                       IN  [r EXCEPT !.text = <<IF b = "CONT" THEN "FFFD" ELSE b>> \o @]
             ELSE IF b = "CONT"
                  THEN LET r == decode(<<>>, rest)
                       IN  [r EXCEPT !.text = <<"CH">> \o @]
                  ELSE LET r == decode(<<>>, value)
                       IN  [r EXCEPT !.text = <<"FFFD">> \o @]

\* ------------------------------------------------------------ String methods
\* buffer.indexOf('\n'), 1-based; 0 stands for JavaScript's -1.
RECURSIVE indexOf(_)
indexOf(s) ==
    IF s = <<>> THEN 0
    ELSE IF Head(s) = "NL" THEN 1
    ELSE LET i == indexOf(Tail(s)) IN IF i = 0 THEN 0 ELSE i + 1

IsWhiteSpace(u) == u \in {"SP", "NL"}

RECURSIVE trimStart(_)
trimStart(s) ==
    IF s # <<>> /\ IsWhiteSpace(Head(s)) THEN trimStart(Tail(s)) ELSE s

RECURSIVE trimEnd(_)
trimEnd(s) ==
    IF s # <<>> /\ IsWhiteSpace(s[Len(s)]) THEN trimEnd(SubSeq(s, 1, Len(s) - 1)) ELSE s

trim(s) == trimEnd(trimStart(s))

\* --------------------------------------------------------------- JSON.parse
\* The value each document unit stands for.
Doc(u) ==
    CASE u = "R"  -> [json |-> "object", type |-> "stage", stage |-> "registry_loaded"]
      [] u = "M0" -> [json |-> "object", type |-> "stage", stage |-> "model_invoked"]
      [] u = "M1" -> [json |-> "object", type |-> "stage", stage |-> "model_invoked", turn |-> 1]
      [] u = "M2" -> [json |-> "object", type |-> "stage", stage |-> "model_invoked", turn |-> 2]
      [] u = "S"  -> [json |-> "object", type |-> "stage", stage |-> "planning"]
      [] u = "C"  -> [json |-> "object", type |-> "tool_call", name |-> "search"]
      [] u = "T"  -> [json |-> "object", type |-> "tool_result", name |-> "search"]
      [] u = "F"  -> [json |-> "object", type |-> "final",
                      message |-> [typeof |-> "string", value |-> "Paris is the capital."]]
      [] u = "FO" -> [json |-> "object", type |-> "final",
                      message |-> [typeof |-> "object", value |-> [city |-> "Paris"]]]
      [] u = "E"  -> [json |-> "object", type |-> "error", error |-> "rate limited"]
      [] u = "U"  -> [json |-> "object", type |-> "heartbeat"]
      [] u = "O"  -> [json |-> "object", stage |-> "model_invoked"]
      [] u = "N"  -> [json |-> "null"]

\* JSON.parse(line): a line is JSON exactly when it is one document; two
\* documents on a line, a document with text around it and "X" are not.
JSONparse(line) ==
    IF Len(line) = 1 /\ line[1] \in DocUnits
    THEN [ok |-> TRUE, evt |-> Doc(line[1])]
    ELSE [ok |-> FALSE]

\* JSON.stringify of a message that is not a string: the object's members,
\* quoted, between braces.
JSONstringify(value) == "{\"city\":\"" \o value.city \o "\"}"

\* evt.type; undefined ("") when the object has no such property.
TypeOf(evt) == IF "type" \in DOMAIN evt THEN evt.type ELSE ""

\* ------------------------------------------------------- the event dispatcher
\* The state one handler run works on: the React state it writes, this
\* cycle's counters, and the lines it has handed to the dispatcher.
Assistant(content) == [role |-> "assistant", content |-> content]

\* The label of a stage event (main.tsx:49).
label(evt) ==
    IF evt.stage = "registry_loaded" THEN "Loaded tool registry"
    ELSE IF evt.stage = "model_invoked"
         THEN "Invoking model" \o
              (IF "turn" \in DOMAIN evt THEN " (turn " \o ToString(evt.turn) \o ")" ELSE "")
         ELSE evt.stage

\* The content of a final event's message (main.tsx:56).
messageContent(evt) ==
    IF evt.message.typeof = "string" THEN evt.message.value
    ELSE JSONstringify(evt.message.value)

\* Caught as it would be if the inner catch reported the failure in the status.
CaughtSetsError(st) == [st EXCEPT !.current = "Error"]

\* The inner catch (main.tsx:63-65): console.error, nothing else.
Caught(st) == st

\* Branches as it would be without the setCurrent of the tool_result branch.
BranchesToolResultSilent(st, evt) ==
    IF TypeOf(evt) = "stage" THEN [st EXCEPT !.current = label(evt)]
    ELSE IF TypeOf(evt) = "tool_call" THEN [st EXCEPT !.current = "Calling " \o evt.name]
    ELSE IF TypeOf(evt) = "tool_result" THEN st
    ELSE IF TypeOf(evt) = "final"
         THEN [st EXCEPT !.messages = Append(@, Assistant(messageContent(evt))),
                         !.current = "Completed",
                         !.appended = @ + 1,
                         !.terminals = @ + 1]
    ELSE IF TypeOf(evt) = "error"
         THEN [st EXCEPT !.messages = Append(@, Assistant("Error: " \o evt.error)),
                         !.current = "Error",
                         !.appended = @ + 1,
                         !.terminals = @ + 1]
    ELSE st

\* Branches as it would be with a last else that shows the type as the status.
BranchesUnknownShown(st, evt) ==
    IF TypeOf(evt) = "stage" THEN [st EXCEPT !.current = label(evt)]
    ELSE IF TypeOf(evt) = "tool_call" THEN [st EXCEPT !.current = "Calling " \o evt.name]
    ELSE IF TypeOf(evt) = "tool_result" THEN [st EXCEPT !.current = evt.name \o " done"]
    ELSE IF TypeOf(evt) = "final"
         THEN [st EXCEPT !.messages = Append(@, Assistant(messageContent(evt))),
                         !.current = "Completed",
                         !.appended = @ + 1,
                         !.terminals = @ + 1]
    ELSE IF TypeOf(evt) = "error"
         THEN [st EXCEPT !.messages = Append(@, Assistant("Error: " \o evt.error)),
                         !.current = "Error",
                         !.appended = @ + 1,
                         !.terminals = @ + 1]
    ELSE [st EXCEPT !.current = TypeOf(evt)]

\* The if/else chain on evt.type (main.tsx:48-62).
Branches(st, evt) ==
    IF TypeOf(evt) = "stage" THEN [st EXCEPT !.current = label(evt)]
    ELSE IF TypeOf(evt) = "tool_call" THEN [st EXCEPT !.current = "Calling " \o evt.name]
    ELSE IF TypeOf(evt) = "tool_result" THEN [st EXCEPT !.current = evt.name \o " done"]
    ELSE IF TypeOf(evt) = "final"
         THEN [st EXCEPT !.messages = Append(@, Assistant(messageContent(evt))),
                         !.current = "Completed",
                         !.appended = @ + 1,
                         !.terminals = @ + 1]
    ELSE IF TypeOf(evt) = "error"
         THEN [st EXCEPT !.messages = Append(@, Assistant("Error: " \o evt.error)),
                         !.current = "Error",
                         !.appended = @ + 1,
                         !.terminals = @ + 1]
    ELSE st

\* The try block for one non-empty line (main.tsx:46-65): JSON.parse throws
\* on text that is no JSON, evt.type throws on null, and both are caught.
dispatch(st, line) ==
    LET parsed == JSONparse(line)
    IN  IF ~parsed.ok THEN Caught(st)
        ELSE IF parsed.evt.json = "null" THEN Caught(st)
        ELSE Branches(st, parsed.evt)

\* One turn of the inner while loop for a buffer with a terminator at idx
\* (main.tsx:43-45): an empty line is skipped by `continue`.
HandLine(st, line) ==
    IF line = <<>> THEN st
    ELSE dispatch([st EXCEPT !.lines = Append(@, line)], line)

\* The inner while loop (main.tsx:42-66).
RECURSIVE lineLoop(_)
lineLoop(st) ==
    LET idx == indexOf(st.buffer)
    IN  IF idx = 0 THEN st
        ELSE LET line == trim(SubSeq(st.buffer, 1, idx - 1))
                 rest == SubSeq(st.buffer, idx + 1, Len(st.buffer))
             IN  lineLoop(HandLine([st EXCEPT !.buffer = rest], line))

\* Accumulate as it would be with `buffer =` for `buffer +=`.
AccumulateOverwrites(buf, text) == text

\* buffer += decoder.decode(value, { stream: true }) (main.tsx:40).
Accumulate(buf, text) == buf \o text

\* The state cycle c's handler starts from.
Before(c) ==
    [current |-> current, messages |-> messages, buffer |-> buffer[c],
     held |-> decoder[c], appended |-> appended[c], terminals |-> terminals[c],
     lines |-> <<>>]

\* The body of the outer loop for one delivered chunk (main.tsx:40-66).
OnChunk(st, value) ==
    LET d == decode(st.held, value)
    IN  lineLoop([st EXCEPT !.buffer = Accumulate(@, d.text), !.held = d.held])

\* ------------------------------------------------------------------- actions
\* What the user may type into the input box: nothing, a blank, a letter.
Inputs == {<<>>, <<"SP">>, <<"A">>}

User(content) == [role |-> "user", content |-> content]

Init ==
    /\ messages = <<>>
    /\ input = <<>>
    /\ loading = FALSE
    /\ current = ""
    /\ pc = [c \in Cycles |-> "idle"]
    /\ buffer = [c \in Cycles |-> <<>>]
    /\ decoder = [c \in Cycles |-> <<>>]
    /\ reads = 0
    /\ appended = [c \in Cycles |-> 0]
    /\ terminals = [c \in Cycles |-> 0]
    /\ outcome = [c \in Cycles |-> "none"]
    /\ received = <<>>
    /\ emitted = <<>>
    /\ midChar = FALSE

\* onChange of the input box (main.tsx:91): setInput(e.target.value).
Type(text) ==
    /\ text # input
    /\ input' = text
    /\ UNCHANGED <<messages, loading, current, pc, buffer, decoder, reads, appended,
                   terminals, outcome, received, emitted, midChar>>

\* sendMessage up to `await fetch` (main.tsx:20-28); c is the call's cycle.
sendMessage(c) ==
    /\ pc[c] = "idle"
    /\ \A d \in Cycles : d < c => pc[d] # "idle"
    /\ IF trim(input) = <<>>
       THEN UNCHANGED vars
       ELSE /\ messages' = Append(messages, User(input))
            /\ input' = <<>>
            /\ loading' = TRUE
            /\ current' = "Queued"
            /\ pc' = [pc EXCEPT ![c] = "fetch"]
            /\ UNCHANGED <<buffer, decoder, reads, appended, terminals, outcome,
                           received, emitted, midChar>>

\* onClick of the Send button, which is disabled while loading (main.tsx:92).
ClickSend(c) == ~loading /\ sendMessage(c)

\* onKeyDown of the input box with the Enter key (main.tsx:91).
PressEnter(c) == sendMessage(c)

\* The outer catch and finally (main.tsx:68-73) for an exception with message text.
CatchFinally(c, text, how) ==
    /\ messages' = Append(messages, Assistant("Error: " \o text))
    /\ appended' = [appended EXCEPT ![c] = @ + 1]
    /\ loading' = FALSE
    /\ pc' = [pc EXCEPT ![c] = "done"]
    /\ outcome' = [outcome EXCEPT ![c] = how]

\* fetch rejects (main.tsx:28): the request never got a response.
FetchReject(c) ==
    /\ pc[c] = "fetch"
    /\ CatchFinally(c, "Failed to fetch", "rejected")
    /\ UNCHANGED <<input, current, buffer, decoder, reads, terminals, received, emitted, midChar>>

\* fetch resolves (main.tsx:28-36) with a response of either status class,
\* with or without a body; res.ok is not read.
FetchResolve(c) ==
    /\ pc[c] = "fetch"
    /\ \E status \in {"ok", "error"}, hasBody \in BOOLEAN :
          IF hasBody
          THEN /\ pc' = [pc EXCEPT ![c] = "read"]
               /\ buffer' = [buffer EXCEPT ![c] = <<>>]
               /\ decoder' = [decoder EXCEPT ![c] = <<>>]
               /\ UNCHANGED <<messages, appended, loading, outcome>>
          ELSE /\ CatchFinally(c, "No stream", "nobody")
               /\ UNCHANGED <<buffer, decoder>>
    /\ UNCHANGED <<input, current, reads, terminals, received, emitted, midChar>>

\* reader.read() resolves with a chunk, and the loop body runs (main.tsx:38-66).
ReadChunk(c, value) ==
    LET st == OnChunk(Before(c), value)
    IN  /\ pc[c] = "read"
        /\ current' = st.current
        /\ messages' = st.messages
        /\ buffer' = [buffer EXCEPT ![c] = st.buffer]
        /\ decoder' = [decoder EXCEPT ![c] = st.held]
        /\ appended' = [appended EXCEPT ![c] = st.appended]
        /\ terminals' = [terminals EXCEPT ![c] = st.terminals]
        /\ UNCHANGED <<input, loading, pc, outcome>>

\* The chunks the send cycles' model lets cycle c read next: the stream is cut
\* off after MaxReads chunks, and a line is at most MaxBuffer units long
\* before its terminator arrives.
CanRead(c, value) ==
    /\ pc[c] = "read"
    /\ reads < MaxReads
    /\ Len(OnChunk(Before(c), value).buffer) <= MaxBuffer

ReadOk(c) ==
    /\ \E value \in Chunks : CanRead(c, value) /\ ReadChunk(c, value)
    /\ reads' = reads + 1
    /\ UNCHANGED <<received, emitted, midChar>>

\* OnDone as it would be if the close flushed the buffer as a last line.
OnDoneFlushes(st) == lineLoop([st EXCEPT !.buffer = @ \o <<"NL">>])

\* `if (done) break` (main.tsx:39): the loop is left with whatever the
\* buffer holds; nothing is dispatched.
OnDone(st) == st

\* reader.read() resolves with done (main.tsx:38-39), then finally (main.tsx:70-73).
ReadDone(c) ==
    LET st == OnDone(Before(c))
    IN  /\ pc[c] = "read"
        /\ current' = st.current
        /\ messages' = st.messages
        /\ buffer' = [buffer EXCEPT ![c] = st.buffer]
        /\ appended' = [appended EXCEPT ![c] = st.appended]
        /\ terminals' = [terminals EXCEPT ![c] = st.terminals]
        /\ pc' = [pc EXCEPT ![c] = "done"]
        /\ outcome' = [outcome EXCEPT ![c] = "closed"]
        /\ loading' = FALSE
        /\ UNCHANGED <<input, decoder, reads, received, emitted, midChar>>

\* reader.read() rejects (main.tsx:38): the outer catch, then finally.
ReadFail(c) ==
    /\ pc[c] = "read"
    /\ CatchFinally(c, "network error", "readfail")
    /\ UNCHANGED <<input, current, buffer, decoder, reads, terminals, received, emitted, midChar>>

Next ==
    \/ \E text \in Inputs : Type(text)
    \/ \E c \in Cycles : ClickSend(c)
    \/ \E c \in Cycles : PressEnter(c)
    \/ \E c \in Cycles : FetchReject(c)
    \/ \E c \in Cycles : FetchResolve(c)
    \/ \E c \in Cycles : ReadOk(c)
    \/ \E c \in Cycles : ReadDone(c)
    \/ \E c \in Cycles : ReadFail(c)

Spec == Init /\ [][Next]_vars

\* ------------------------------------------------------- the traced decoder
\* Cycle 1 as sendMessage leaves it when fetch has resolved with a body: the
\* user's message is in the transcript, the status is 'Queued', the buffer
\* and the decoder are fresh.
InitDecode ==
    /\ messages = <<User(<<"A">>)>>
    /\ input = <<>>
    /\ loading = TRUE
    /\ current = "Queued"
    /\ pc = [c \in Cycles |-> IF c = 1 THEN "read" ELSE "idle"]
    /\ buffer = [c \in Cycles |-> <<>>]
    /\ decoder = [c \in Cycles |-> <<>>]
    /\ reads = 0
    /\ appended = [c \in Cycles |-> 0]
    /\ terminals = [c \in Cycles |-> 0]
    /\ outcome = [c \in Cycles |-> "none"]
    /\ received = <<>>
    /\ emitted = <<>>
    /\ midChar = FALSE

\* reader.read() resolves with a chunk of bytes (main.tsx:38-66); the bytes
\* and the lines handed on are recorded.
ReadBytes ==
    \E value \in ByteChunks :
        /\ Len(received) + Len(value) <= MaxBytes
        /\ ReadChunk(1, value)
        /\ received' = received \o value
        /\ emitted' = emitted \o OnChunk(Before(1), value).lines
        /\ midChar' = (midChar \/ OnChunk(Before(1), value).held # <<>>)
        /\ UNCHANGED reads

NextDecode ==
    \/ ReadBytes
    \/ ReadDone(1)
    \/ ReadFail(1)

SpecDecode == InitDecode /\ [][NextDecode]_vars

\* =================================================================== claims
\* What the statements below compare the handler with.

\* The text cycle c's buffer holds once `value` has been decoded onto it.
TextWith(c, value) == buffer[c] \o decode(decoder[c], value).text

\* The result of cycle c's handler for the chunk `value`.
After(c, value) == OnChunk(Before(c), value)

\* A segment without the blanks around it.
Strip(seg) ==
    LET inked == {i \in 1..Len(seg) : seg[i] # "SP"}
    IN  IF inked = {} THEN <<>>
        ELSE SubSeq(seg, CHOOSE i \in inked : \A j \in inked : i <= j,
                         CHOOSE i \in inked : \A j \in inked : i >= j)

\* The terminated segments of a text, in order; what follows the last
\* terminator is no segment.
RECURSIVE SegmentsFrom(_, _)
SegmentsFrom(text, open) ==
    IF text = <<>> THEN <<>>
    ELSE IF Head(text) = "NL" THEN <<open>> \o SegmentsFrom(Tail(text), <<>>)
    ELSE SegmentsFrom(Tail(text), Append(open, Head(text)))

\* What follows the last terminator of a text.
RECURSIVE Unterminated(_)
Unterminated(text) ==
    IF \A i \in 1..Len(text) : text[i] # "NL" THEN text ELSE Unterminated(Tail(text))

NonEmpty(line) == line # <<>>

\* The non-empty stripped terminated lines of a text, in order.
TerminatedLines(text) ==
    LET segs == SegmentsFrom(text, <<>>)
    IN  SelectSeq([i \in 1..Len(segs) |-> Strip(segs[i])], NonEmpty)

IsJSON(line) == Len(line) = 1 /\ line[1] \in DocUnits

\* The protocol's tag of a line: of a document its variant, "other" for an
\* unknown or missing discriminant, "none" for what is no event at all.
Tag(line) ==
    IF ~IsJSON(line) THEN "none"
    ELSE CASE line[1] \in {"R", "M0", "M1", "M2", "S"} -> "stage"
           [] line[1] = "C" -> "tool_call"
           [] line[1] = "T" -> "tool_result"
           [] line[1] \in {"F", "FO"} -> "final"
           [] line[1] = "E" -> "error"
           [] line[1] \in {"U", "O"} -> "other"
           [] OTHER -> "none"

StatusBearing(line) == Tag(line) \in {"stage", "tool_call", "tool_result", "final", "error"}

\* The status label the protocol gives each status-bearing document.
ExpectedLabel(line) ==
    CASE line[1] = "R"  -> "Loaded tool registry"
      [] line[1] = "M0" -> "Invoking model"
      [] line[1] = "M1" -> "Invoking model (turn 1)"
      [] line[1] = "M2" -> "Invoking model (turn 2)"
      [] line[1] = "S"  -> "planning"
      [] line[1] = "C"  -> "Calling search"
      [] line[1] = "T"  -> "search done"
      [] line[1] \in {"F", "FO"} -> "Completed"
      [] line[1] = "E"  -> "Error"

\* The dispatcher applied to a list of lines, one after the other.
RECURSIVE Replay(_, _)
Replay(st, lines) ==
    IF lines = <<>> THEN st ELSE Replay(dispatch(st, Head(lines)), Tail(lines))

InProgress(c) == pc[c] \in {"fetch", "read"}

Failed(how) == how \in {"rejected", "nobody", "readfail"}

\* C1: a send cycle appends at most one assistant message to the transcript,
\* whatever lines the stream carries and however the transport ends.
AtMostOneAppendPerCycle == \A c \in Cycles : appended[c] <= 1

\* C2: a cycle whose stream closed before any final or error event was
\* dispatched has appended exactly one (failure) assistant message.
CloseWithoutTerminalAppendsFailure ==
    \A c \in Cycles : (outcome[c] = "closed" /\ terminals[c] = 0) => appended[c] = 1

\* C3: however the bytes received so far were cut into chunks, the lines
\* handed to the dispatcher are the lines the loop hands on when the same
\* bytes arrive as one chunk.
ChunkBoundaryInvariance ==
    emitted = OnChunk([Before(1) EXCEPT !.buffer = <<>>, !.held = <<>>], received).lines

\* C3 witness: a line with a two-byte character, cut between the two bytes,
\* has been handed on.
CutInsideCharacter ==
    /\ received = <<"A", "LEAD", "CONT", "NL">>
    /\ midChar
    /\ emitted = <<(<<"A", "CH">>)>>

\* C4: a line that is no JSON changes neither status nor transcript and stops
\* nothing: every terminated line of the chunk is handed on, the handler's
\* result is that of dispatching the JSON lines alone, and a line that is no
\* JSON followed by the final line gives the final event's effect.
MalformedLineIsSkipped ==
    \A c \in Cycles, value \in Chunks :
        CanRead(c, value) =>
            LET st == After(c, value)
                all == TerminatedLines(TextWith(c, value))
                want == Replay(Before(c), SelectSeq(all, IsJSON))
            IN  /\ st.lines = all
                /\ st.current = want.current
                /\ st.messages = want.messages
                /\ (Len(all) = 2 /\ ~IsJSON(all[1]) /\ all[2] = <<"F">>) =>
                       /\ st.messages = Append(messages, Assistant("Paris is the capital."))
                       /\ st.current = "Completed"
                       /\ st.appended = appended[c] + 1

\* C4 witness: a reading cycle about to receive a line that is no JSON and
\* then the final line, with the final event's effect as the result.
MalformedThenFinal ==
    \E c \in Cycles, value \in Chunks :
        /\ CanRead(c, value)
        /\ TerminatedLines(TextWith(c, value)) = <<(<<"X">>), (<<"F">>)>>
        /\ After(c, value).current = "Completed"
        /\ Len(After(c, value).messages) = Len(messages) + 1

\* C5: when the transport fails, one assistant message is appended and the
\* status label changes.
TransportFailureChangesStatus ==
    [][\A c \in Cycles :
          (outcome[c] = "none" /\ Failed(outcome'[c])) =>
              /\ Len(messages') = Len(messages) + 1
              /\ current' # current]_vars

\* C6: at most one send cycle is in progress at any time.
AtMostOneCycleInProgress == Cardinality({c \in Cycles : InProgress(c)}) <= 1

\* C7: once a cycle has dispatched a final or error line, no later line of
\* its stream changes the status or the transcript.
TerminalIsLast ==
    \A c \in Cycles, value \in Chunks :
        (CanRead(c, value) /\ terminals[c] >= 1) =>
            /\ After(c, value).current = current
            /\ After(c, value).messages = messages

StatusOnlyKeepsTranscript ==
    \A c \in Cycles, value \in Chunks :
        CanRead(c, value) =>
            LET all == TerminatedLines(TextWith(c, value))
                tags == {Tag(all[i]) : i \in 1..Len(all)}
            IN  /\ tags \subseteq {"stage", "tool_call", "tool_result", "other"} =>
                       After(c, value).messages = messages
                /\ tags \subseteq {"other"} => After(c, value).current = current

\* C9 witness: a reading cycle with a transcript about to receive a line of
\* missing type and a tool_call line, which changes the status only.
UnknownThenToolCall ==
    \E c \in Cycles, value \in Chunks :
        /\ CanRead(c, value)
        /\ messages # <<>>
        /\ TerminatedLines(TextWith(c, value)) = <<(<<"O">>), (<<"C">>)>>
        /\ After(c, value).current = "Calling search"
        /\ After(c, value).messages = messages

\* C10: a line is dispatched only once its terminator has arrived (what
\* follows the last terminator stays in the buffer), and when the stream
\* closes the text still in the buffer is dropped: status, transcript and
\* the cycle's counters are after the close what they were before it.
UnterminatedTextIsDiscarded ==
    /\ \A c \in Cycles, value \in Chunks :
          CanRead(c, value) =>
              /\ After(c, value).lines = TerminatedLines(TextWith(c, value))
              /\ After(c, value).buffer = Unterminated(TextWith(c, value))
    /\ \A c \in Cycles :
          pc[c] = "read" =>
              LET st == OnDone(Before(c))
              IN  /\ st.lines = <<>>
                  /\ st.messages = messages
                  /\ st.current = current
                  /\ st.appended = appended[c]
                  /\ st.terminals = terminals[c]

\* C10 witness: a stream has closed on a cycle whose buffer holds a final
\* line without its terminator, and the cycle appended nothing.
ClosedOnBufferedFinal ==
    \E c \in Cycles :
        /\ outcome[c] = "closed"
        /\ buffer[c] = <<"F">>
        /\ appended[c] = 0
        /\ terminals[c] = 0

====
